---- MODULE Spec2Model ----
(***************************************************************************)
(* Le Grand Jeu de l'Ile de Re: the assignment generator of                *)
(* server/storage.ts (DatabaseStorage.generateAssignments), the tables of  *)
(* shared/schema.ts it reads and writes, and the routes that call it.      *)
(*                                                                         *)
(* Every `await` of the source is one atomic database step; the            *)
(* synchronous code that follows an await up to the next one is part of    *)
(* the step that resumes it (it touches no table).                         *)
(***************************************************************************)
EXTENDS Integers, Sequences, FiniteSets, TLC

\* ---------------------------------------------------------------- bounds
MaxUsers == 4      \* rosters of 0..MaxUsers non-admin participants
MaxPool == 2       \* challenges per difficulty in the bank
NumSeeds == 3      \* seed strings randomBytes may return (see Seeds)
MaxGens == 2       \* POST /api/assignments/generate requests per behaviour
MaxConcUsers == 2  \* roster bound of the overlapping-requests specification
MaxConcPool == 1   \* active challenges per difficulty in that specification
MaxAuditLog == 2   \* POST /api/audit is taken while the log is shorter than this
MaxStride == 3     \* the digit-by-digit seeds step their digits by 0..MaxStride
MaxUpdates == 2    \* PATCH /api/assignments/:assignmentId/status requests per behaviour
MaxProofs == 2     \* POST /api/proofs requests that store a proof, per behaviour

\* ------------------------------------------------------- program constants
SeedLength == 256  \* randomBytes(128).toString('hex')
WindowLen == 8     \* seed.substr(.., 8), seedIndex += 8
TeamSize == 3      \* i += 3, Math.min(3, ..)
NumMissions == 3   \* identificationMissions.length
Quota == 2         \* .slice(0, 2)

Null == "null"
Undefined == [undefined |-> TRUE]

Min(a, b) == IF a < b THEN a ELSE b

Procs == 1..MaxGens

\* ------------------------------------------------------------- variables
VARIABLES
  users,            \* table users (row order)
  challenges,       \* table challenges (row order)
  teams,            \* table teams
  teamMembers,      \* table team_members
  assignments,      \* table assignments
  assignmentSeeds,  \* table assignment_seeds, in generatedAt order
  auditLog,         \* table audit_log, in timestamp order
  gen,              \* per generate request: the handler's position and locals
  val,              \* the validate-mission request: position and parameters
  rd,               \* the read request: position, parameters and result
  ver,              \* the verify-seed request: position, parameter and answer
  proofs,           \* table proofs
  upd,              \* the status requests: how many were made, and the last one
  pv,               \* the validate-proof requests: how many, and the last one
  fn,               \* the seed stream and the shuffle applied to drawn inputs
  pre,              \* per generate request: the tables as they were at its call
  post              \* per generate request: the tables as they were at its return

\* ------------------------------------------------------------ the tables
\* users: the admin account and the participants, in row order.
ParticipantIds == <<"user-1", "user-2", "user-3", "user-4", "user-5", "user-6">>

AdminUser == [id |-> "admin-1", isAdmin |-> TRUE]

UsersTable(n) ==
  <<AdminUser>> \o [i \in 1..n |-> [id |-> ParticipantIds[i], isAdmin |-> FALSE]]

Difficulties == <<"easy", "medium", "hard", "team">>

\* challenges: MaxPool rows per difficulty; row k of a difficulty needs a
\* target when k is odd; the first cnt[d] rows of difficulty d are active.
ChallengesTable(cnt) ==
  [i \in 1..(4 * MaxPool) |->
     LET d == ((i - 1) \div MaxPool) + 1
         k == ((i - 1) % MaxPool) + 1
     IN [id |-> <<Difficulties[d], k>>,
         difficulty |-> Difficulties[d],
         needsTarget |-> (k % 2 = 1),
         isActive |-> (k <= cnt[d])]]

\* ------------------------------------------------- the seed and its stream
\* A seed is a string of 256 hex digits, read in 32 windows of 8 digits.  The
\* seeds enumerated here are those whose windows each repeat one hex digit d
\* ("dddddddd"): parseInt of such a window is d * 0x11111111 and
\* 0xffffffff = 15 * 0x11111111, so the value of the window is d / 15.  A seed
\* is the tuple of its 32 window digits.
NumWindows == SeedLength \div WindowLen

\* Seed s counts its windows up from digit s, modulo 17 - s: seed 1 runs through
\* all sixteen digits ("ffffffff" is its 15th window), the others never reach f.
MkSeed(s) == [w \in 1..NumWindows |-> (s + w - 1) % (17 - s)]

Seeds == { MkSeed(s) : s \in 1..NumSeeds }

\* createHash('sha256').update(seed).digest('hex'): one-way, no collision
\* among the seeds enumerated.
Hash(seed) == <<"sha256", seed>>

\* seedIndex kept across calls instead of starting at 0 in each: the stream of
\* a call starts further on for every seed record stored before it
StreamDigit_Carried(seed, seedIndex) ==
  seed[(((seedIndex + WindowLen * Len(assignmentSeeds)) % SeedLength) \div WindowLen) + 1]

\* seededRandom(): the digit d of the window at seedIndex % seed.length; the
\* value returned is d / 15, in [0, 1] with 1 reached by "ffffffff".
StreamDigit(seed, seedIndex) ==
  seed[((seedIndex % SeedLength) \div WindowLen) + 1]

\* Math.floor(seededRandom() * n)
FloorMul(d, n) == (d * n) \div 15

\* seededRandom() - 0.5 < 0
Negative(seed, seedIndex) == 2 * StreamDigit(seed, seedIndex) < 15

\* ------------------------------------------- the stream, digit by digit
\* The seed as randomBytes(128).toString('hex') returns it: a string of 256
\* hex digits.  Seed (a, b) steps by a from digit to digit and by b from window
\* to window: (0, 1) has the windows "00000000", "11111111", .., "ffffffff",
\* (1, 0) the windows "01234567", "89abcdef".
HexSeed(a, b) ==
  [i \in 1..SeedLength |-> (a * (i - 1) + b * ((i - 1) \div WindowLen)) % 16]

HexSeeds == { HexSeed(a, b) : a \in 0..MaxStride, b \in 0..MaxStride }

\* s.substr(start, length): at most length characters, fewer at the end of s
Substr(s, start, length) == SubSeq(s, start + 1, Min(start + length, Len(s)))

\* the window read without the modulo: nothing is left past the end of the seed
Window_Unwrapped(hex, seedIndex) == Substr(hex, seedIndex, WindowLen)

\* seed.substr(seedIndex % seed.length, 8)
Window(hex, seedIndex) == Substr(hex, seedIndex % Len(hex), WindowLen)

\* a 32-bit value is the pair <<hi, lo>> of its 16-bit halves
MaxUint32 == <<65535, 65535>>

NaN == <<>>

RECURSIVE ParseDigits(_, _)
ParseDigits(w, acc) ==
  IF w = <<>>
  THEN acc
  ELSE ParseDigits(Tail(w), <<(acc[1] * 16 + (acc[2] \div 4096)) % 65536,
                              (acc[2] % 4096) * 16 + Head(w)>>)

\* parseInt(w, 16) of a string of at most 8 hex digits; NaN for the empty string
ParseInt(w) == IF w = <<>> THEN NaN ELSE ParseDigits(w, <<0, 0>>)

\* seededRandom(): the value num / den returned at seedIndex
SeededRandom(hex, seedIndex) ==
  [num |-> ParseInt(Window(hex, seedIndex)), den |-> MaxUint32]

\* the values of n successive calls, seedIndex += 8 after each
RECURSIVE Stream(_, _, _)
Stream(hex, seedIndex, n) ==
  IF n = 0
  THEN <<>>
  ELSE <<SeededRandom(hex, seedIndex)>> \o Stream(hex, seedIndex + WindowLen, n - 1)

\* ------------------------------------------------------- the seeded shuffle
\* [a[i], a[j]] = [a[j], a[i]] with 0-based i, j: a write at j = a.length
\* extends the array and leaves undefined at i.
Swap(a, i, j) ==
  IF j + 1 > Len(a)
  THEN [Append(a, a[i + 1]) EXCEPT ![i + 1] = Undefined]
  ELSE [a EXCEPT ![i + 1] = a[j + 1], ![j + 1] = a[i + 1]]

\* for (let i = a.length - 1; i > 0; i--) { j = floor(random() * (i + 1)); swap }
RECURSIVE ShuffleFrom(_, _, _, _)
ShuffleFrom(seed, a, i, seedIndex) ==
  IF i <= 0
  THEN [list |-> a, seedIndex |-> seedIndex]
  ELSE LET j == FloorMul(StreamDigit(seed, seedIndex), i + 1)
       IN ShuffleFrom(seed, Swap(a, i, j), i - 1, seedIndex + WindowLen)

Shuffle(seed, allUsers, seedIndex) ==
  ShuffleFrom(seed, allUsers, Len(allUsers) - 1, seedIndex)

\* ------------------------------------------------------------ team forming
\* for (i = 0; i < n; i += 3) push(slice(i, i + min(3, n - i)).map(u => u.id))
RECURSIVE FormTeamsFrom(_, _)
FormTeamsFrom(shuffled, i) ==
  IF i >= Len(shuffled)
  THEN <<>>
  ELSE LET teamSize == Min(TeamSize, Len(shuffled) - i)
       IN <<[k \in 1..teamSize |-> shuffled[i + k].id]>>
            \o FormTeamsFrom(shuffled, i + TeamSize)

\* a last group of one filled up from the group before it: 3 + 1 becomes 2 + 2
FormTeams_Balanced(shuffled) ==
  LET base == FormTeamsFrom(shuffled, 0)
      n == Len(base)
  IN IF n >= 2 /\ Len(base[n]) = 1
     THEN [base EXCEPT ![n - 1] = SubSeq(base[n - 1], 1, 2),
                       ![n] = <<base[n - 1][3]>> \o base[n]]
     ELSE base

\* the loop bound written i + 3 <= n: the last, shorter group is never formed
FormTeams_FullOnly(shuffled) ==
  FormTeamsFrom(SubSeq(shuffled, 1, TeamSize * (Len(shuffled) \div TeamSize)), 0)

FormTeams(shuffled) == FormTeamsFrom(shuffled, 0)

\* u.id of an undefined element throws a TypeError
FormTeamsThrows(shuffled) == \E k \in 1..Len(shuffled) : shuffled[k] = Undefined

\* --------------------------------------- [...pool].sort(() => random() - 0.5)
\* Array.prototype.sort as the engine runs it on a short array: it finds the
\* leading run (reversing it when it descends), then inserts each later element
\* by binary search.  The comparator ignores its arguments and draws one value
\* of the stream per call.
RECURSIVE RunLength(_, _, _, _, _)
RunLength(seed, n, descending, len, seedIndex) ==
  IF len >= n
  THEN [len |-> len, seedIndex |-> seedIndex]
  ELSE LET neg == Negative(seed, seedIndex)
       IN IF (descending /\ ~neg) \/ (~descending /\ neg)
          THEN [len |-> len, seedIndex |-> seedIndex + WindowLen]
          ELSE RunLength(seed, n, descending, len + 1, seedIndex + WindowLen)

ReverseRun(a, len) ==
  [i \in 1..Len(a) |-> IF i <= len THEN a[len + 1 - i] ELSE a[i]]

RECURSIVE BinarySearch(_, _, _, _)
BinarySearch(seed, left, right, seedIndex) ==
  IF left >= right
  THEN [pos |-> left, seedIndex |-> seedIndex]
  ELSE LET mid == left + ((right - left) \div 2)
       IN IF Negative(seed, seedIndex)
          THEN BinarySearch(seed, left, mid, seedIndex + WindowLen)
          ELSE BinarySearch(seed, mid + 1, right, seedIndex + WindowLen)

MoveTo(a, start, pos) ==
  [i \in 1..Len(a) |->
     IF i < pos \/ i > start THEN a[i]
     ELSE IF i = pos THEN a[start]
     ELSE a[i - 1]]

RECURSIVE BinaryInsertion(_, _, _, _)
BinaryInsertion(seed, a, start, seedIndex) ==
  IF start > Len(a)
  THEN [list |-> a, seedIndex |-> seedIndex]
  ELSE LET b == BinarySearch(seed, 1, start, seedIndex)
       IN BinaryInsertion(seed, MoveTo(a, start, b.pos), start + 1, b.seedIndex)

SortRandom(seed, pool, seedIndex) ==
  IF Len(pool) < 2
  THEN [list |-> pool, seedIndex |-> seedIndex]
  ELSE LET descending == Negative(seed, seedIndex)
           run == RunLength(seed, Len(pool), descending, 2, seedIndex + WindowLen)
           a == IF descending THEN ReverseRun(pool, run.len) ELSE pool
       IN BinaryInsertion(seed, a, run.len + 1, run.seedIndex)

\* .slice(0, 2)
Slice2(a) == SubSeq(a, 1, Min(Quota, Len(a)))

\* the filter left out: the assignee stays among the targets
PossibleTargets_Unfiltered(allUsers, user) == allUsers

\* allUsers.filter(u => u.id !== user.id)
PossibleTargets(allUsers, user) == SelectSeq(allUsers, LAMBDA u : u.id # user.id)

\* ------------------------------------------------------------------ state
vars == <<users, challenges, teams, teamMembers, assignments, assignmentSeeds,
          auditLog, gen, val, rd, ver, proofs, upd, pv, fn, pre, post>>

\* the handlers other than generate
clients == <<val, rd, ver, upd, pv, fn>>

tables == <<teams, teamMembers, assignments, assignmentSeeds, auditLog, proofs>>

GenIdle ==
  [pc |-> "idle", adminId |-> Null, seed |-> <<>>, seedHash |-> <<>>,
   allUsers |-> <<>>, easyChallenges |-> <<>>, mediumChallenges |-> <<>>,
   hardChallenges |-> <<>>, teamChallenges |-> <<>>, seedRecord |-> <<>>,
   seedIndex |-> 0, teamAssignments |-> <<>>, ti |-> 0, teamId |-> <<>>,
   mi |-> 0, ui |-> 0, cat |-> 0, sel |-> <<>>, k |-> 0, nid |-> 0]

Snapshot ==
  [teams |-> teams, teamMembers |-> teamMembers, assignments |-> assignments,
   assignmentSeeds |-> assignmentSeeds, auditLog |-> auditLog]

NoSnapshot ==
  [teams |-> {}, teamMembers |-> {}, assignments |-> {}, assignmentSeeds |-> <<>>,
   auditLog |-> <<>>]

\* during: the generate requests in flight when validateTeamMission ran
ValIdle == [pc |-> "idle", teamId |-> <<>>, adminId |-> Null, during |-> {}]

\* result: <<>> for undefined, <<v>> for the value v; during: the generate
\* requests in flight at every query of the read
RdIdle == [pc |-> "idle", op |-> Null, userId |-> Null, team |-> <<>>,
           result |-> <<>>, during |-> {}]

\* isValid: <<>> until the route has answered, <<b>> for { isValid: b }
VerIdle == [pc |-> "idle", seedHash |-> <<>>, isValid |-> <<>>]

\* count: the requests made so far; answer: the status the route answered
UpdIdle == [count |-> 0, assignmentId |-> <<>>, status |-> Null, answer |-> 0]

PvIdle == [count |-> 0, proofId |-> <<>>, validatorId |-> Null, answer |-> 0]

\* hex, seed: the inputs; draws, shuffled: the results
FnIdle == [pc |-> "idle", hex |-> <<>>, seed |-> <<>>, draws |-> <<>>,
           shuffled |-> <<>>]

UserIds == { users[i].id : i \in 1..Len(users) }

\* the ids of a set of rows
Ids(rows) == { r.id : r \in rows }

\* a nullable reference that is not set
Unset == <<>>

\* the whole table read as the roster
NonAdminUsers_All == users

\* db.select().from(users).where(eq(users.isAdmin, false))
NonAdminUsers == SelectSeq(users, LAMBDA u : ~u.isAdmin)

\* getChallengesByDifficulty(difficulty)
GetChallengesByDifficulty(difficulty) ==
  SelectSeq(challenges, LAMBDA c : c.difficulty = difficulty /\ c.isActive)

\* the insert written as a replacement of the table's rows
CreateAuditLogEntry_Replace(entry) == <<entry>>

\* createAuditLogEntry(entry): db.insert(auditLog).values(entry); the table
\* after the insert
CreateAuditLogEntry(entry) == Append(auditLog, entry)

\* the states of a request between its first and its last database step
InFlight(p) == gen[p].pc \notin {"idle", "rejected", "done", "failed"}

GensInFlight == { p \in Procs : InFlight(p) }

PoolCounts == [1..4 -> 0..MaxPool]

InitTables ==
  /\ teams = {}
  /\ teamMembers = {}
  /\ assignments = {}
  /\ assignmentSeeds = <<>>
  /\ auditLog = <<>>
  /\ gen = [p \in Procs |-> GenIdle]
  /\ pre = [p \in Procs |-> NoSnapshot]
  /\ post = [p \in Procs |-> NoSnapshot]
  /\ val = ValIdle
  /\ rd = RdIdle
  /\ ver = VerIdle
  /\ proofs = {}
  /\ upd = UpdIdle
  /\ pv = PvIdle

Init ==
  /\ \E n \in 0..MaxUsers : users = UsersTable(n)
  /\ \E cnt \in PoolCounts : challenges = ChallengesTable(cnt)
  /\ InitTables
  /\ fn = FnIdle

\* ------------------------------------------- POST /api/assignments/generate
\* the adminId of the request body: any non-empty string
AdminIdInputs == {"admin-1", "ghost"}

\* requests are handled in the order they arrive
InOrder(p) == IF p = 1 THEN TRUE ELSE gen[p - 1].pc # "idle"

\* if (!adminId) return res.status(400)
GenReject(p) ==
  /\ gen[p].pc = "idle"
  /\ InOrder(p)
  /\ gen' = [gen EXCEPT ![p].pc = "rejected"]
  /\ UNCHANGED <<users, challenges, tables, pre, post, clients>>

\* lines 186-195: the seed, its hash, the roster and the four challenge lists
GenStart(p) ==
  /\ gen[p].pc = "idle"
  /\ InOrder(p)
  /\ \E adminId \in AdminIdInputs, seed \in Seeds :
       gen' = [gen EXCEPT ![p] =
                 [GenIdle EXCEPT
                    !.pc = "deleteAssignments",
                    !.adminId = adminId,
                    !.seed = seed,
                    !.seedHash = Hash(seed),
                    !.allUsers = NonAdminUsers,
                    !.easyChallenges = GetChallengesByDifficulty("easy"),
                    !.mediumChallenges = GetChallengesByDifficulty("medium"),
                    !.hardChallenges = GetChallengesByDifficulty("hard"),
                    !.teamChallenges = GetChallengesByDifficulty("team")]]
  /\ pre' = [pre EXCEPT ![p] = Snapshot]
  /\ UNCHANGED <<users, challenges, tables, post, clients>>

\* the delete run with no foreign key on proofs.assignment_id
GenDeleteAssignments_Unreferenced(p) ==
  /\ gen[p].pc = "deleteAssignments"
  /\ assignments' = {}
  /\ gen' = [gen EXCEPT ![p].pc = "deleteTeamMembers"]
  /\ UNCHANGED <<users, challenges, teams, teamMembers, assignmentSeeds, auditLog,
                 proofs, pre, post, clients>>

\* await db.delete(assignments): proofs.assignment_id references assignments.id,
\* so the delete rejects while a proof names an assignment
GenDeleteAssignments(p) ==
  /\ gen[p].pc = "deleteAssignments"
  /\ IF \E pr \in proofs : pr.assignmentId \in Ids(assignments)
     THEN /\ gen' = [gen EXCEPT ![p].pc = "failed"]
          /\ UNCHANGED assignments
     ELSE /\ assignments' = {}
          /\ gen' = [gen EXCEPT ![p].pc = "deleteTeamMembers"]
  /\ UNCHANGED <<users, challenges, teams, teamMembers, assignmentSeeds, auditLog,
                 proofs, pre, post, clients>>

\* await db.delete(teamMembers)
GenDeleteTeamMembers(p) ==
  /\ gen[p].pc = "deleteTeamMembers"
  /\ teamMembers' = {}
  /\ gen' = [gen EXCEPT ![p].pc = "deleteTeams"]
  /\ UNCHANGED <<users, challenges, teams, assignments, assignmentSeeds, auditLog,
                 proofs, pre, post, clients>>

\* the delete of teams left out
GenDeleteTeams_Skipped(p) ==
  /\ gen[p].pc = "deleteTeams"
  /\ gen' = [gen EXCEPT ![p].pc = "deactivateSeeds"]
  /\ UNCHANGED <<users, challenges, tables, pre, post, clients>>

\* await db.delete(teams): proofs.team_id references teams.id, so the delete
\* rejects while a proof names a team
GenDeleteTeams(p) ==
  /\ gen[p].pc = "deleteTeams"
  /\ IF \E pr \in proofs : pr.teamId \in Ids(teams)
     THEN /\ gen' = [gen EXCEPT ![p].pc = "failed"]
          /\ UNCHANGED teams
     ELSE /\ teams' = {}
          /\ gen' = [gen EXCEPT ![p].pc = "deactivateSeeds"]
  /\ UNCHANGED <<users, challenges, teamMembers, assignments, assignmentSeeds, auditLog,
                 proofs, pre, post, clients>>

\* the earlier records deleted instead of deactivated
GenDeactivateSeeds_Purge(p) ==
  /\ gen[p].pc = "deactivateSeeds"
  /\ assignmentSeeds' = <<>>
  /\ gen' = [gen EXCEPT ![p].pc = "insertSeed"]
  /\ UNCHANGED <<users, challenges, teams, teamMembers, assignments, auditLog,
                 proofs, pre, post, clients>>

\* the update left out: earlier records stay active
GenDeactivateSeeds_Skipped(p) ==
  /\ gen[p].pc = "deactivateSeeds"
  /\ gen' = [gen EXCEPT ![p].pc = "insertSeed"]
  /\ UNCHANGED <<users, challenges, tables, pre, post, clients>>

\* await db.update(assignmentSeeds).set({ isActive: false })
GenDeactivateSeeds(p) ==
  /\ gen[p].pc = "deactivateSeeds"
  /\ assignmentSeeds' =
       [i \in 1..Len(assignmentSeeds) |-> [assignmentSeeds[i] EXCEPT !.isActive = FALSE]]
  /\ gen' = [gen EXCEPT ![p].pc = "insertSeed"]
  /\ UNCHANGED <<users, challenges, teams, teamMembers, assignments, auditLog,
                 proofs, pre, post, clients>>

\* the pool of the category of the per-user loop: 1 easy, 2 medium, 3 hard
Pool(l, c) ==
  IF c = 1 THEN l.easyChallenges
  ELSE IF c = 2 THEN l.mediumChallenges
  ELSE l.hardChallenges

\* lines 273-317 between two createAssignment calls: sort and slice the pool of
\* the next category, of the next user after the hard one, until a selection
\* is non-empty or the roster is exhausted.
RECURSIVE NextAssignment(_, _, _, _)
NextAssignment(l, ui, c, seedIndex) ==
  IF ui > Len(l.allUsers)
  THEN [pc |-> "audit", ui |-> ui, cat |-> c, sel |-> <<>>, k |-> 0,
        seedIndex |-> seedIndex]
  ELSE LET s == SortRandom(l.seed, Pool(l, c), seedIndex)
           sel == Slice2(s.list)
       IN IF Len(sel) > 0
          THEN [pc |-> "createAssignment", ui |-> ui, cat |-> c, sel |-> sel,
                k |-> 1, seedIndex |-> s.seedIndex]
          ELSE IF c < 3
               THEN NextAssignment(l, ui, c + 1, s.seedIndex)
               ELSE NextAssignment(l, ui + 1, 1, s.seedIndex)

ToAssignments(l, ui, c, seedIndex) ==
  LET n == NextAssignment(l, ui, c, seedIndex)
  IN [l EXCEPT !.pc = n.pc, !.ui = n.ui, !.cat = n.cat, !.sel = n.sel,
               !.k = n.k, !.seedIndex = n.seedIndex]

\* the record stored with the hash of the hash instead of the hash of the seed
NewSeedRecord_Rehashed(l, id) ==
  [id |-> id, seed |-> l.seed, seedHash |-> Hash(l.seedHash),
   participantCount |-> Len(l.allUsers), generatedBy |-> l.adminId,
   isActive |-> TRUE]

\* lines 204-210: the values of the inserted seed record
NewSeedRecord(l, id) ==
  [id |-> id, seed |-> l.seed, seedHash |-> l.seedHash,
   participantCount |-> Len(l.allUsers), generatedBy |-> l.adminId,
   isActive |-> TRUE]

\* lines 204-235: insert the seed record (generated_by references users.id),
\* then shuffle the roster and cut it into teams
GenInsertSeed(p) ==
  LET l == gen[p]
      id == <<p, l.nid + 1>>
      sh == Shuffle(l.seed, l.allUsers, 0)
      l1 == [l EXCEPT !.seedRecord = id, !.nid = l.nid + 1,
                      !.seedIndex = sh.seedIndex]
  IN /\ l.pc = "insertSeed"
     /\ IF l.adminId \notin UserIds
        THEN /\ gen' = [gen EXCEPT ![p].pc = "failed"]
             /\ UNCHANGED assignmentSeeds
        ELSE /\ assignmentSeeds' = Append(assignmentSeeds, NewSeedRecord(l, id))
             /\ gen' = [gen EXCEPT ![p] =
                  IF FormTeamsThrows(sh.list)
                  THEN [l1 EXCEPT !.pc = "failed"]
                  ELSE LET l2 == [l1 EXCEPT !.teamAssignments = FormTeams(sh.list)]
                       IN IF Len(l2.teamAssignments) = 0
                          THEN ToAssignments(l2, 1, 1, sh.seedIndex)
                          ELSE [l2 EXCEPT !.pc = "insertTeam", !.ti = 1]]
     /\ UNCHANGED <<users, challenges, teams, teamMembers, assignments, auditLog,
                 proofs, pre, post, clients>>

\* line 254: Math.floor(seededRandom() * identificationMissions.length)
MissionIndex(l) == FloorMul(StreamDigit(l.seed, l.seedIndex), NumMissions)

\* the value drawn for the mission used again for the team challenge
TeamChallengeIndex_SameDraw(l) ==
  FloorMul(StreamDigit(l.seed, l.seedIndex), Len(l.teamChallenges))

\* line 256: Math.floor(seededRandom() * teamChallenges.length), the draw
\* after the mission's
TeamChallengeIndex(l) ==
  FloorMul(StreamDigit(l.seed, l.seedIndex + WindowLen), Len(l.teamChallenges))

\* lines 253-264: draw the mission and the team challenge, insert the team;
\* mission.title or teamChallenge.id of undefined throws a TypeError
GenInsertTeam(p) ==
  LET l == gen[p]
      missionIndex == MissionIndex(l)
      teamChallengeIndex == TeamChallengeIndex(l)
      id == <<p, l.nid + 1>>
  IN /\ l.pc = "insertTeam"
     /\ IF missionIndex >= NumMissions \/ teamChallengeIndex >= Len(l.teamChallenges)
        THEN /\ gen' = [gen EXCEPT ![p].pc = "failed"]
             /\ UNCHANGED teams
        ELSE /\ teams' = teams \cup
                  {[id |-> id, name |-> l.ti,
                    identificationMissionTitle |-> <<"title", missionIndex>>,
                    identificationMissionDescription |-> <<"description", missionIndex>>,
                    identificationMissionValidated |-> FALSE,
                    teamChallengeId |-> l.teamChallenges[teamChallengeIndex + 1].id]}
             /\ gen' = [gen EXCEPT ![p] =
                  [l EXCEPT !.pc = "addTeamMember", !.teamId = id, !.mi = 1,
                            !.nid = l.nid + 1,
                            !.seedIndex = l.seedIndex + 2 * WindowLen]]
     /\ UNCHANGED <<users, challenges, teamMembers, assignments, assignmentSeeds, auditLog,
                 proofs, pre, post, clients>>

\* lines 267-269: await this.addTeamMember(team.id, userId)
GenAddTeamMember(p) ==
  LET l == gen[p]
      team == l.teamAssignments[l.ti]
      l1 == [l EXCEPT !.nid = l.nid + 1]
  IN /\ l.pc = "addTeamMember"
     /\ teamMembers' = teamMembers \cup
          {[id |-> <<p, l.nid + 1>>, teamId |-> l.teamId, userId |-> team[l.mi]]}
     /\ gen' = [gen EXCEPT ![p] =
          IF l.mi < Len(team)
          THEN [l1 EXCEPT !.mi = l.mi + 1]
          ELSE IF l.ti < Len(l.teamAssignments)
               THEN [l1 EXCEPT !.pc = "insertTeam", !.ti = l.ti + 1]
               ELSE ToAssignments(l1, 1, 1, l.seedIndex)]
     /\ UNCHANGED <<users, challenges, teams, assignments, assignmentSeeds, auditLog,
                 proofs, pre, post, clients>>

\* lines 276-316: one createAssignment; a medium or hard challenge that needs
\* a target draws it first, and possibleTargets[index].id of undefined throws
GenCreateAssignment(p) ==
  LET l == gen[p]
      user == l.allUsers[l.ui]
      challenge == l.sel[l.k]
      needs == l.cat \in {2, 3} /\ challenge.needsTarget
      possibleTargets == PossibleTargets(l.allUsers, user)
      index == FloorMul(StreamDigit(l.seed, l.seedIndex), Len(possibleTargets))
      seedIndex == IF needs THEN l.seedIndex + WindowLen ELSE l.seedIndex
      l1 == [l EXCEPT !.nid = l.nid + 1, !.seedIndex = seedIndex]
  IN /\ l.pc = "createAssignment"
     /\ IF needs /\ index >= Len(possibleTargets)
        THEN /\ gen' = [gen EXCEPT ![p].pc = "failed"]
             /\ UNCHANGED assignments
        ELSE /\ assignments' = assignments \cup
                  {[id |-> <<p, l.nid + 1>>, userId |-> user.id,
                    challengeId |-> challenge.id,
                    targetUserId |-> IF needs THEN possibleTargets[index + 1].id ELSE Null,
                    status |-> "not_started"]}
             /\ gen' = [gen EXCEPT ![p] =
                  IF l.k < Len(l.sel)
                  THEN [l1 EXCEPT !.k = l.k + 1]
                  ELSE IF l.cat < 3
                       THEN ToAssignments(l1, l.ui, l.cat + 1, seedIndex)
                       ELSE ToAssignments(l1, l.ui + 1, 1, seedIndex)]
     /\ UNCHANGED <<users, challenges, teams, teamMembers, assignmentSeeds, auditLog,
                 proofs, pre, post, clients>>

\* the entry written with the number of teams for the participant count
GenerateAuditEntry_TeamCount(l) ==
  [action |-> "generate_assignments", adminId |-> l.adminId,
   details |-> Len(l.teamAssignments), seedHash |-> l.seedHash]

\* lines 320-325: the entry of a generation with the locals l
GenerateAuditEntry(l) ==
  [action |-> "generate_assignments", adminId |-> l.adminId,
   details |-> Len(l.allUsers), seedHash |-> l.seedHash]

\* lines 320-327: the audit entry, then the route answers 200
GenAudit(p) ==
  LET l == gen[p]
  IN /\ l.pc = "audit"
     /\ auditLog' = CreateAuditLogEntry(GenerateAuditEntry(l))
     /\ gen' = [gen EXCEPT ![p].pc = "done"]
     /\ post' = [post EXCEPT ![p] = [Snapshot EXCEPT !.auditLog = auditLog']]
     /\ UNCHANGED <<users, challenges, teams, teamMembers, assignments, assignmentSeeds,
                 proofs, pre, clients>>

GenStep(p) ==
  \/ GenDeleteAssignments(p)
  \/ GenDeleteTeamMembers(p)
  \/ GenDeleteTeams(p)
  \/ GenDeactivateSeeds(p)
  \/ GenInsertSeed(p)
  \/ GenInsertTeam(p)
  \/ GenAddTeamMember(p)
  \/ GenCreateAssignment(p)
  \/ GenAudit(p)

\* ------------------------------------ POST /api/team/:teamId/validate-mission
UnknownTeamId == <<0, 0>>

\* the update run without its where clause: every team is validated
ValidateTeamMission_All(teamId) ==
  { [t EXCEPT !.identificationMissionValidated = TRUE] : t \in teams }

\* validateTeamMission(teamId): the table teams after
\* update(teams).set({ identificationMissionValidated: true }).where(id = teamId)
ValidateTeamMission(teamId) ==
  { IF t.id = teamId
    THEN [t EXCEPT !.identificationMissionValidated = TRUE]
    ELSE t : t \in teams }

\* await storage.validateTeamMission(teamId): an update that matches no row
\* changes nothing and raises nothing
ValValidate ==
  /\ val.pc = "idle"
  /\ \E teamId \in { t.id : t \in teams } \cup {UnknownTeamId},
        adminId \in AdminIdInputs :
       val' = [pc |-> "audit", teamId |-> teamId, adminId |-> adminId,
               during |-> GensInFlight]
       /\ teams' = ValidateTeamMission(teamId)
  /\ UNCHANGED <<users, challenges, teamMembers, assignments, assignmentSeeds,
                 auditLog, gen, rd, ver, pre, post,
                 proofs, upd, pv, fn>>

\* await storage.createAuditLogEntry(..): admin_id is NOT NULL and references
\* users.id; the insert that violates it rejects and the route answers 500
ValAudit ==
  /\ val.pc = "audit"
  /\ IF val.adminId \in UserIds
     THEN /\ auditLog' = CreateAuditLogEntry(
               [action |-> "validate_team_mission", adminId |-> val.adminId,
                details |-> val.teamId, seedHash |-> Null])
          /\ val' = [val EXCEPT !.pc = "done"]
     ELSE /\ val' = [val EXCEPT !.pc = "failed"]
          /\ UNCHANGED auditLog
  /\ UNCHANGED <<users, challenges, teams, teamMembers, assignments,
                 assignmentSeeds, gen, rd, ver, pre, post,
                 proofs, upd, pv, fn>>

\* ----------------------------------------------------------------- readers
\* the reads take the tables as a record, so that they can be put to a snapshot
ParticipantUserIds == { users[i].id : i \in { j \in 1..Len(users) : ~users[j].isAdmin } }

\* getTeamByUserId, first query: the teams of the membership rows of userId
TeamsOfUser(db, userId) ==
  { t \in db.teams : \E m \in db.teamMembers : m.userId = userId /\ m.teamId = t.id }

\* getTeamByUserId, second query: the team with all its membership rows
TeamWithMembers(db, team) ==
  [team |-> team, members |-> { m \in db.teamMembers : m.teamId = team.id }]

\* getAssignmentsByUserId: one query
AssignmentsOfUser(db, userId) == { a \in db.assignments : a.userId = userId }

\* getCurrentSeed: the active record of the latest generatedAt, if any
CurrentSeed(db) ==
  LET active == { i \in 1..Len(db.assignmentSeeds) : db.assignmentSeeds[i].isActive }
  IN IF active = {}
     THEN <<>>
     ELSE <<db.assignmentSeeds[CHOOSE i \in active : \A j \in active : j <= i]>>

\* GET /api/team/:userId, lines 108-119: teamMember[0].team of the first query
ReadTeamFirst ==
  /\ rd.pc = "idle"
  /\ \E userId \in ParticipantUserIds :
       IF TeamsOfUser(Snapshot, userId) = {}
       THEN rd' = [RdIdle EXCEPT !.pc = "done", !.op = "team", !.userId = userId,
                                 !.during = GensInFlight]
       ELSE \E t \in TeamsOfUser(Snapshot, userId) :
              rd' = [RdIdle EXCEPT !.pc = "teamMembers", !.op = "team",
                                   !.userId = userId, !.team = <<t>>,
                                   !.during = GensInFlight]
  /\ UNCHANGED <<users, challenges, tables, gen, val, ver, pre, post, upd, pv, fn>>

\* lines 121-134: the members of that team
ReadTeamMembers ==
  /\ rd.pc = "teamMembers"
  /\ rd' = [rd EXCEPT !.pc = "done",
                      !.result = <<TeamWithMembers(Snapshot, rd.team[1])>>,
                      !.during = rd.during \cap GensInFlight]
  /\ UNCHANGED <<users, challenges, tables, gen, val, ver, pre, post, upd, pv, fn>>

\* GET /api/assignments/:userId
ReadAssignments ==
  /\ rd.pc = "idle"
  /\ \E userId \in ParticipantUserIds :
       rd' = [RdIdle EXCEPT !.pc = "done", !.op = "assignments", !.userId = userId,
                            !.result = <<AssignmentsOfUser(Snapshot, userId)>>,
                            !.during = GensInFlight]
  /\ UNCHANGED <<users, challenges, tables, gen, val, ver, pre, post, upd, pv, fn>>

\* GET /api/seed/current
ReadCurrentSeed ==
  /\ rd.pc = "idle"
  /\ rd' = [RdIdle EXCEPT !.pc = "done", !.op = "seed",
                          !.result = CurrentSeed(Snapshot),
                          !.during = GensInFlight]
  /\ UNCHANGED <<users, challenges, tables, gen, val, ver, pre, post, upd, pv, fn>>

\* ------------------------------------------------------ POST /api/seed/verify
\* a candidate that is the hash of no seed
OtherHash == <<"other", <<>>>>

\* req.body.seedHash: the hash of a seed, or another string
HashInputs == { Hash(seed) : seed \in Seeds } \cup {OtherHash}

\* the lookup restricted to the active record
VerifySeed_ActiveOnly(seedHash) ==
  LET rows == SelectSeq(assignmentSeeds,
                        LAMBDA r : r.seedHash = seedHash /\ r.isActive)
  IN Len(rows) > 0

\* verifySeed(seedHash): const [seed] = select where seed_hash = seedHash;
\* return !!seed
VerifySeed(seedHash) ==
  LET rows == SelectSeq(assignmentSeeds, LAMBDA r : r.seedHash = seedHash)
  IN Len(rows) > 0

\* the route: one query, then res.json({ isValid })
SeedVerify ==
  /\ ver.pc = "idle"
  /\ \E seedHash \in HashInputs :
       ver' = [pc |-> "done", seedHash |-> seedHash,
               isValid |-> <<VerifySeed(seedHash)>>]
  /\ UNCHANGED <<users, challenges, tables, gen, val, rd, pre, post, upd, pv, fn>>

\* ------------------------------------------------------------ POST /api/audit
\* auditActionEnum values a posted entry may carry
PostedActions == {"verify_seed", "regenerate_assignments"}

\* insertAuditLogSchema.parse(req.body), then createAuditLogEntry; an adminId
\* that is no user violates the foreign key: the route answers 400 and the
\* table is as it was
PostAudit ==
  /\ Len(auditLog) < MaxAuditLog
  /\ \E action \in PostedActions, adminId \in AdminIdInputs :
       IF adminId \in UserIds
       THEN auditLog' = CreateAuditLogEntry(
              [action |-> action, adminId |-> adminId, details |-> "posted",
               seedHash |-> Null])
       ELSE UNCHANGED auditLog
  /\ UNCHANGED <<users, challenges, teams, teamMembers, assignments,
                 assignmentSeeds, gen, val, rd, ver, pre, post,
                 proofs, upd, pv, fn>>

\* --------------------------- PATCH /api/assignments/:assignmentId/status
\* challengeStatusEnum
ChallengeStatus == {"not_started", "in_progress", "completed", "validated"}

\* req.body.status: a value of the enum, or another string
StatusInputs == ChallengeStatus \cup {"done"}

UnknownAssignmentId == <<0, 1>>

\* the column typed as text: any string is stored
AcceptsStatus_Text(status) == TRUE

\* assignments.status is of type challenge_status: the database rejects a
\* statement that sets it to a string that is no value of the enum
AcceptsStatus(status) == status \in ChallengeStatus

\* updateAssignmentStatus(assignmentId, status) and the route's answer: an
\* update that matches no row changes nothing and raises nothing
UpdateStatus ==
  /\ upd.count < MaxUpdates
  /\ \E assignmentId \in Ids(assignments) \cup {UnknownAssignmentId},
        status \in StatusInputs :
       IF AcceptsStatus(status)
       THEN /\ assignments' = { IF a.id = assignmentId
                                THEN [a EXCEPT !.status = status]
                                ELSE a : a \in assignments }
            /\ upd' = [count |-> upd.count + 1, assignmentId |-> assignmentId,
                       status |-> status, answer |-> 200]
       ELSE /\ upd' = [count |-> upd.count + 1, assignmentId |-> assignmentId,
                       status |-> status, answer |-> 500]
            /\ UNCHANGED assignments
  /\ UNCHANGED <<users, challenges, teams, teamMembers, assignmentSeeds, auditLog,
                 proofs, gen, val, rd, ver, pv, fn, pre, post>>

\* ------------------------------------------------------------ POST /api/proofs
\* proofData.userId: a user, or a string that is no user
ProofUserInputs == {"user-1", "ghost"}

\* createProof(proof): user_id, assignment_id and team_id reference users.id,
\* assignments.id and teams.id; an insert that violates one of them rejects,
\* the route answers 400 and the table is as it was
CreateProof ==
  /\ Cardinality(proofs) < MaxProofs
  /\ \E userId \in ProofUserInputs,
        assignmentId \in Ids(assignments) \cup {Unset, UnknownAssignmentId},
        teamId \in Ids(teams) \cup {Unset, UnknownTeamId} :
       IF /\ userId \in UserIds
          /\ assignmentId \in Ids(assignments) \cup {Unset}
          /\ teamId \in Ids(teams) \cup {Unset}
       THEN proofs' = proofs \cup
              {[id |-> Cardinality(proofs) + 1, userId |-> userId,
                assignmentId |-> assignmentId, teamId |-> teamId,
                isValidated |-> FALSE, validatedBy |-> Null]}
       ELSE UNCHANGED proofs
  /\ UNCHANGED <<users, challenges, teams, teamMembers, assignments, assignmentSeeds,
                 auditLog, gen, val, rd, ver, upd, pv, fn, pre, post>>

\* ------------------------------------ PATCH /api/proofs/:proofId/validate
UnknownProofId == 0

\* validateProof(proofId, validatorId) and the route's answer: validated_by
\* references users.id, checked on the rows the update matches; an update that
\* matches no row changes nothing and raises nothing
ValidateProof ==
  /\ pv.count < MaxProofs
  /\ \E proofId \in Ids(proofs) \cup {UnknownProofId}, validatorId \in AdminIdInputs :
       IF proofId \in Ids(proofs) /\ validatorId \notin UserIds
       THEN /\ pv' = [count |-> pv.count + 1, proofId |-> proofId,
                      validatorId |-> validatorId, answer |-> 500]
            /\ UNCHANGED proofs
       ELSE /\ proofs' = { IF pr.id = proofId
                           THEN [pr EXCEPT !.isValidated = TRUE,
                                           !.validatedBy = validatorId]
                           ELSE pr : pr \in proofs }
            /\ pv' = [count |-> pv.count + 1, proofId |-> proofId,
                      validatorId |-> validatorId, answer |-> 200]
  /\ UNCHANGED <<users, challenges, teams, teamMembers, assignments, assignmentSeeds,
                 auditLog, gen, val, rd, ver, upd, fn, pre, post>>

\* ------------------------------------- the stream and the shuffle, applied
\* the digits a window of a shuffle seed repeats: they give the values 0, 1/3,
\* 2/3 and 1
DigitChoices == {0, 5, 10, 15}

\* the seeds whose first MaxUsers - 1 windows, those a shuffle reads, each
\* repeat a digit of DigitChoices; the other windows are "00000000"
ShuffleSeeds ==
  { [w \in 1..NumWindows |-> IF w < MaxUsers THEN f[w] ELSE 0] :
      f \in [1..(MaxUsers - 1) -> DigitChoices] }

\* the stream is taken for two rounds of the seed
StreamLen == 2 * NumWindows

\* seededRandom() called StreamLen times on fn.hex
ApplyStream ==
  /\ fn.pc = "idle"
  /\ fn' = [fn EXCEPT !.pc = "drawn", !.draws = Stream(fn.hex, 0, StreamLen)]
  /\ UNCHANGED <<users, challenges, tables, gen, val, rd, ver, upd, pv, pre, post>>

\* lines 220-225 on the roster of users and the seed fn.seed
ApplyShuffle ==
  /\ fn.pc = "idle"
  /\ fn' = [fn EXCEPT !.pc = "shuffled",
                      !.shuffled = Shuffle(fn.seed, NonAdminUsers, 0).list]
  /\ UNCHANGED <<users, challenges, tables, gen, val, rd, ver, upd, pv, pre, post>>

\* --------------------------------------------------------- specifications
NoneInFlight == \A q \in Procs : ~InFlight(q)

\* Spec: the generate requests of a behaviour run one after another.
Next ==
  \E p \in Procs :
    \/ NoneInFlight /\ GenReject(p)
    \/ NoneInFlight /\ GenStart(p)
    \/ GenStep(p)

Spec == Init /\ [][Next]_vars

\* SpecConc: the generate requests overlap freely at their awaits.
InitConc ==
  /\ \E n \in 0..MaxConcUsers : users = UsersTable(n)
  /\ challenges = ChallengesTable([d \in 1..4 |-> MaxConcPool])
  /\ InitTables
  /\ fn = FnIdle

\* request p draws the seed numbered p, or the last one enumerated
ConcSeed(p) == MkSeed(Min(p, NumSeeds))

NextConc ==
  \E p \in Procs :
    \/ GenReject(p)
    \/ GenStart(p) /\ gen'[p].adminId \in UserIds /\ gen'[p].seed = ConcSeed(p)
    \/ GenStep(p)
    \/ ValValidate
    \/ ValAudit

SpecConc == InitConc /\ [][NextConc]_vars

\* SpecRead: the generate requests run one after another, and one read request
\* runs at any time, in between or during them.
NextRead ==
  \/ \E p \in Procs :
       \/ NoneInFlight /\ GenStart(p) /\ gen'[p].adminId \in UserIds /\ gen'[p].seed = ConcSeed(p)
       \/ GenStep(p)
  \/ ReadTeamFirst
  \/ ReadTeamMembers
  \/ ReadAssignments
  \/ ReadCurrentSeed

SpecRead == InitConc /\ [][NextRead]_vars

\* SpecAdmin: the generate requests run one after another; the other admin
\* triggers (validate mission, verify seed, post an audit entry) run at any
\* time, in between or during them.
NextAdmin ==
  \/ \E p \in Procs :
       \/ NoneInFlight /\ GenStart(p) /\ gen'[p].seed = ConcSeed(p)
       \/ GenStep(p)
  \/ ValValidate
  \/ ValAudit
  \/ SeedVerify
  \/ PostAudit

SpecAdmin == InitConc /\ [][NextAdmin]_vars

\* SpecPlay: the generate requests run one after another; status updates and
\* the mission validation run at any time, in between or during them.
NextPlay ==
  \/ \E p \in Procs :
       \/ NoneInFlight /\ GenStart(p) /\ gen'[p].adminId \in UserIds /\ gen'[p].seed = ConcSeed(p)
       \/ GenStep(p)
  \/ UpdateStatus
  \/ ValValidate
  \/ ValAudit

SpecPlay == InitConc /\ [][NextPlay]_vars

\* SpecProof: the generate requests run one after another; proofs are submitted
\* and validated at any time, in between or during them.
NextProof ==
  \/ \E p \in Procs :
       \/ NoneInFlight /\ GenStart(p) /\ gen'[p].adminId \in UserIds /\ gen'[p].seed = ConcSeed(p)
       \/ GenStep(p)
  \/ CreateProof
  \/ ValidateProof

SpecProof == InitConc /\ [][NextProof]_vars

\* SpecStream: the seed stream and the seeded shuffle alone, on every seed of
\* HexSeeds and ShuffleSeeds and every roster.
InitStream ==
  /\ \E n \in 0..MaxUsers : users = UsersTable(n)
  /\ challenges = ChallengesTable([d \in 1..4 |-> MaxPool])
  /\ InitTables
  /\ \E hex \in HexSeeds, seed \in ShuffleSeeds :
       fn = [FnIdle EXCEPT !.hex = hex, !.seed = seed]

NextStream ==
  \/ ApplyStream
  \/ ApplyShuffle

SpecStream == InitStream /\ [][NextStream]_vars

\* ------------------------------------------------------------------ claims
Done == { p \in Procs : gen[p].pc = "done" }

ActiveSeeds == { i \in 1..Len(assignmentSeeds) : assignmentSeeds[i].isActive }

SeedIds == { assignmentSeeds[i].id : i \in 1..Len(assignmentSeeds) }

\* every generateAssignments call made so far has run to completion
AllCompleted == \A p \in Procs : gen[p].pc \in {"idle", "rejected", "done"}

LastDone == CHOOSE p \in Done : \A q \in Done : q <= p

\* C1: after N >= 1 generateAssignments calls that each ran to completion one
\* after another, exactly one seed record is active, it is the record the last
\* call created, and the records of the other N-1 calls exist and are inactive.
C1_OneActiveAfterRuns ==
  (AllCompleted /\ Done # {}) =>
     /\ Len(assignmentSeeds) = Cardinality(Done)
     /\ Cardinality(ActiveSeeds) = 1
     /\ \A i \in ActiveSeeds : assignmentSeeds[i].id = gen[LastDone].seedRecord
     /\ \A p \in Done : gen[p].seedRecord \in SeedIds

\* two calls have run to completion one after the other
C1_Witness ==
  /\ AllCompleted
  /\ Cardinality(Done) >= 2

\* C2: in every reachable state, under every interleaving of generateAssignments
\* calls, at most one seed record is active.
C2_AtMostOneActive == Cardinality(ActiveSeeds) <= 1

\* C3: generation is serialized: no two generate requests are in flight at
\* once, and validateTeamMission never runs while one is in flight.
C3_Serialized ==
  /\ Cardinality(GensInFlight) <= 1
  /\ val.during = {}

\* what a read answers when it sees the tables db alone
Answers(db, op, userId) ==
  IF op = "team"
  THEN IF TeamsOfUser(db, userId) = {}
       THEN {<<>>}
       ELSE { <<TeamWithMembers(db, t)>> : t \in TeamsOfUser(db, userId) }
  ELSE IF op = "assignments"
       THEN {<<AssignmentsOfUser(db, userId)>>}
       ELSE {CurrentSeed(db)}

\* C5: a read that ran while a generateAssignments call was in progress answers
\* what it would answer on the tables as they were before that call or on the
\* tables as that call left them.
C5_ReaderIsolation ==
  rd.pc = "done" =>
    \A p \in rd.during :
      gen[p].pc = "done" =>
        rd.result \in Answers(pre[p], rd.op, rd.userId)
                        \cup Answers(post[p], rd.op, rd.userId)

\* no request that came after p has called generateAssignments: the tables are
\* as p left them
Latest(p) == \A q \in Procs : q > p => gen[q].pc \in {"idle", "rejected"}

ActiveSeedIds(seeds) == { seeds[i].id : i \in { j \in 1..Len(seeds) : seeds[j].isActive } }

\* C4: generation is all-or-nothing: after a generateAssignments call that
\* failed, the teams, memberships and assignments that existed before the call
\* are all present and the seed record active before it is the active one.
C4_AllOrNothing ==
  \A p \in Procs :
    (gen[p].pc = "failed" /\ Latest(p)) =>
       /\ teams = pre[p].teams
       /\ teamMembers = pre[p].teamMembers
       /\ assignments = pre[p].assignments
       /\ ActiveSeedIds(assignmentSeeds) = ActiveSeedIds(pre[p].assignmentSeeds)

MembersOf(teamId) == { m \in teamMembers : m.teamId = teamId }

\* C6: a completed generateAssignments over a roster of N participants leaves
\* exactly ceil(N/3) teams whose member counts sum to N, and every participant
\* is a member of exactly one of them.
C6_Partition ==
  \A p \in Procs :
    (gen[p].pc = "done" /\ Latest(p)) =>
       LET N == Len(gen[p].allUsers)
       IN /\ Cardinality(teams) = (N + TeamSize - 1) \div TeamSize
          /\ Cardinality(teamMembers) = N
          /\ \A m \in teamMembers : \E tm \in teams : tm.id = m.teamId
          /\ \A i \in 1..N :
               Cardinality({ m \in teamMembers : m.userId = gen[p].allUsers[i].id }) = 1

\* a completed call over a roster that does not divide by three
C6_Witness ==
  \E p \in Procs :
    /\ gen[p].pc = "done"
    /\ Latest(p)
    /\ Len(gen[p].allUsers) > TeamSize
    /\ Len(gen[p].allUsers) % TeamSize # 0

\* C7: every team a completed generateAssignments leaves has 2 or 3 members.
C7_TeamSizes ==
  \A p \in Procs :
    (gen[p].pc = "done" /\ Latest(p)) =>
       \A tm \in teams : Cardinality(MembersOf(tm.id)) \in {2, 3}

AssignmentsIn(userId, difficulty) ==
  { a \in assignments : a.userId = userId /\ a.challengeId[1] = difficulty }

\* the bank the call read has an active challenge of every difficulty
FullBank(p) ==
  /\ Len(gen[p].easyChallenges) >= 1
  /\ Len(gen[p].mediumChallenges) >= 1
  /\ Len(gen[p].hardChallenges) >= 1
  /\ Len(gen[p].teamChallenges) >= 1

\* C8: after a completed generateAssignments over a bank with an active
\* challenge of every difficulty, every participant has exactly 2 easy, 2 medium
\* and 2 hard assignments, no two of one category for the same challenge.
C8_Quota ==
  \A p \in Procs :
    (gen[p].pc = "done" /\ Latest(p) /\ FullBank(p)) =>
       \A i \in 1..Len(gen[p].allUsers) :
         \A d \in {"easy", "medium", "hard"} :
           LET mine == AssignmentsIn(gen[p].allUsers[i].id, d)
           IN /\ Cardinality(mine) = Quota
              /\ \A a, b \in mine : a.challengeId = b.challengeId => a = b

\* C9: a generateAssignments call that read a bank with no active challenge of
\* some difficulty fails before any mutation: it never completes, and the
\* teams, memberships, assignments and seed records stay as they were.
C9_FailsBeforeMutation ==
  \A p \in Procs :
    (gen[p].pc \notin {"idle", "rejected"} /\ ~FullBank(p) /\ Latest(p)) =>
       /\ gen[p].pc # "done"
       /\ Snapshot = pre[p]

\* C10: in every reachable state, the target of an assignment, when set, is not
\* the assignment's own participant.
C10_TargetNotSelf ==
  \A a \in assignments : a.targetUserId # Null => a.targetUserId # a.userId

\* an assignment with a target has been created
C10_Witness == \E a \in assignments : a.targetUserId # Null

\* challenges.needsTarget of the challenge with this id
NeedsTarget(challengeId) ==
  \E i \in 1..Len(challenges) :
    challenges[i].id = challengeId /\ challenges[i].needsTarget

\* C11: every assignment created by a generateAssignments call over a roster of
\* at least 2 participants, easy, medium or hard, has its targetUserId set if
\* and only if its challenge has needsTarget = true.
C11_TargetIffNeeded ==
  \A p \in Procs :
    Len(gen[p].allUsers) >= 2 =>
      \A a \in assignments :
        a.id[1] = p => ((a.targetUserId # Null) <=> NeedsTarget(a.challengeId))

\* the team compositions of the tables db: name, members, mission, challenge
TeamComposition(db) ==
  { [name |-> t.name,
     members |-> { m.userId : m \in { x \in db.teamMembers : x.teamId = t.id } },
     mission |-> t.identificationMissionTitle,
     teamChallengeId |-> t.teamChallengeId] : t \in db.teams }

\* the participant-to-challenge pairs of the tables db, with their targets
ChallengePairs(db) ==
  { [userId |-> a.userId, challengeId |-> a.challengeId,
     targetUserId |-> a.targetUserId] : a \in db.assignments }

\* two calls that drew the same seed and read the same roster and lists
SameInputs(p, q) ==
  /\ gen[p].seed = gen[q].seed
  /\ gen[p].allUsers = gen[q].allUsers
  /\ gen[p].easyChallenges = gen[q].easyChallenges
  /\ gen[p].mediumChallenges = gen[q].mediumChallenges
  /\ gen[p].hardChallenges = gen[q].hardChallenges
  /\ gen[p].teamChallenges = gen[q].teamChallenges

C13_HashOfSeed ==
  \A i \in 1..Len(assignmentSeeds) :
    assignmentSeeds[i].seedHash = Hash(assignmentSeeds[i].seed)

\* an active record and a deactivated one are stored
C13_Witness ==
  /\ \E i \in 1..Len(assignmentSeeds) : assignmentSeeds[i].isActive
  /\ \E i \in 1..Len(assignmentSeeds) : ~assignmentSeeds[i].isActive

\* C14: the step of a verifySeed(h) call answers true exactly when a stored
\* seed record, active or inactive, has seedHash = h, answers false otherwise
\* (also on an empty table) without failing, and changes no table.
C14_VerifyExact ==
  [][(ver.pc = "idle" /\ ver'.pc # "idle") =>
       /\ ver'.pc = "done"
       /\ ver'.isValid =
            <<\E i \in 1..Len(assignmentSeeds) :
                assignmentSeeds[i].seedHash = ver'.seedHash>>
       /\ UNCHANGED <<users, challenges, teams, teamMembers, assignments,
                      assignmentSeeds, auditLog>>]_vars

\* verifySeed answered true for the hash of a record that is no longer active
C14_Witness ==
  /\ ver.pc = "done"
  /\ ver.isValid = <<TRUE>>
  /\ \E i \in 1..Len(assignmentSeeds) :
       assignmentSeeds[i].seedHash = ver.seedHash /\ ~assignmentSeeds[i].isActive

\* the positions of generateAssignments after its three deletes
AfterDeletes ==
  {"deactivateSeeds", "insertSeed", "insertTeam", "addTeamMember",
   "createAssignment", "audit", "done"}

\* C15: once a generateAssignments call has run its deletes, and after it has
\* completed, no team, membership or assignment that existed before the call
\* exists; every seed record and audit entry that existed before a completed
\* call exists after it.
C15_Destructive ==
  \A p \in Procs :
    /\ (gen[p].pc \in AfterDeletes /\ Latest(p)) =>
         /\ Ids(teams) \cap Ids(pre[p].teams) = {}
         /\ Ids(teamMembers) \cap Ids(pre[p].teamMembers) = {}
         /\ Ids(assignments) \cap Ids(pre[p].assignments) = {}
    /\ gen[p].pc = "done" =>
         /\ \A i \in 1..Len(pre[p].assignmentSeeds) :
              \E j \in 1..Len(post[p].assignmentSeeds) :
                post[p].assignmentSeeds[j].id = pre[p].assignmentSeeds[i].id
         /\ Len(post[p].auditLog) > Len(pre[p].auditLog)
         /\ SubSeq(post[p].auditLog, 1, Len(pre[p].auditLog)) = pre[p].auditLog

\* a call completed over tables that held teams, memberships, assignments, a
\* seed record and an audit entry
C15_Witness ==
  \E p \in Procs :
    /\ gen[p].pc = "done"
    /\ pre[p].teams # {}
    /\ pre[p].teamMembers # {}
    /\ pre[p].assignments # {}
    /\ pre[p].assignmentSeeds # <<>>
    /\ pre[p].auditLog # <<>>

\* the seed record the call of request p created
SeedRecordOf(p) ==
  assignmentSeeds[CHOOSE i \in 1..Len(assignmentSeeds) :
                    assignmentSeeds[i].id = gen[p].seedRecord]

\* request p completes in this step
Completes(p) == gen[p].pc # "done" /\ gen'[p].pc = "done"

\* C16: the step that completes a generateAssignments call appends exactly one
\* audit entry and writes no team, membership or assignment (all are written
\* by then); the entry has action generate_assignments, the acting admin, the
\* participant count and the seedHash of the seed record the call created; no
\* other step of a generation writes an audit entry.
C16_OneAuditEntry ==
  [][IF \E p \in Procs : Completes(p)
     THEN \A p \in Procs :
            Completes(p) =>
              /\ Len(auditLog') = Len(auditLog) + 1
              /\ SubSeq(auditLog', 1, Len(auditLog)) = auditLog
              /\ auditLog'[Len(auditLog')].action = "generate_assignments"
              /\ auditLog'[Len(auditLog')].adminId = gen[p].adminId
              /\ auditLog'[Len(auditLog')].details = Len(gen[p].allUsers)
              /\ auditLog'[Len(auditLog')].seedHash = SeedRecordOf(p).seedHash
              /\ UNCHANGED <<teams, teamMembers, assignments>>
              /\ Cardinality(teamMembers) = Len(gen[p].allUsers)
     ELSE auditLog' = auditLog]_vars

\* two calls have completed and the log holds their two entries
C16_Witness ==
  /\ Cardinality(Done) = 2
  /\ Len(auditLog) = 2
  /\ assignments # {}

\* the audit entries with this action
EntriesOf(action) == { i \in 1..Len(auditLog) : auditLog[i].action = action }

\* the generate requests that called generateAssignments and have answered
Answered == { p \in Procs : gen[p].pc \in {"done", "failed"} }

\* C17: every invocation of an admin trigger has produced exactly one audit
\* entry once it has answered: one generate_assignments entry per generate
\* request, one validate_team_mission entry for the validate request, and a
\* verify_seed entry for the verify request.
C17_EveryTriggerAudited ==
  /\ Cardinality(EntriesOf("generate_assignments")) = Cardinality(Answered)
  /\ val.pc \in {"done", "failed"} =>
       Cardinality(EntriesOf("validate_team_mission")) = 1
  /\ ver.pc = "done" => Cardinality(EntriesOf("verify_seed")) >= 1

\* C18: the audit log is append-only: no step removes an entry or changes a
\* field of one; the log after a step starts with the log before it.
C18_AppendOnly ==
  [][/\ Len(auditLog') >= Len(auditLog)
     /\ SubSeq(auditLog', 1, Len(auditLog)) = auditLog]_vars

\* the log holds an entry of a generation followed by an entry of another
\* trigger
C18_Witness ==
  \E i, j \in 1..Len(auditLog) :
    /\ i < j
    /\ auditLog[i].action = "generate_assignments"
    /\ auditLog[j].action # "generate_assignments"

\* C19: seed history is monotone: no step deletes a seed record or changes its
\* seed, seedHash, participantCount or generatedBy, and no step turns isActive
\* from false to true.
C19_SeedHistoryMonotone ==
  [][/\ Len(assignmentSeeds') >= Len(assignmentSeeds)
     /\ \A i \in 1..Len(assignmentSeeds) :
          /\ assignmentSeeds'[i].id = assignmentSeeds[i].id
          /\ assignmentSeeds'[i].seed = assignmentSeeds[i].seed
          /\ assignmentSeeds'[i].seedHash = assignmentSeeds[i].seedHash
          /\ assignmentSeeds'[i].participantCount = assignmentSeeds[i].participantCount
          /\ assignmentSeeds'[i].generatedBy = assignmentSeeds[i].generatedBy
          /\ assignmentSeeds'[i].isActive => assignmentSeeds[i].isActive]_vars

\* a deactivated record is followed by a later, active one
C19_Witness ==
  \E i, j \in 1..Len(assignmentSeeds) :
    /\ i < j
    /\ ~assignmentSeeds[i].isActive
    /\ assignmentSeeds[j].isActive

\* the shuffled roster of request p: the shuffle of its roster under its seed
ShuffledUsers(p) == Shuffle(gen[p].seed, gen[p].allUsers, 0).list

BelowOne(v) ==
  /\ v.num # NaN
  /\ \/ v.num[1] < v.den[1]
     \/ v.num[1] = v.den[1] /\ v.num[2] < v.den[2]

\* C21: every value the seed-derived stream returns lies in [0, 1), for every
\* seed of 256 hex digits; an index floor(value * n), n >= 1, lies in 0..n-1
\* exactly when the value is below 1.
C21_UnitInterval ==
  fn.pc = "drawn" => \A k \in 1..Len(fn.draws) : BelowOne(fn.draws[k])

\* C22: the seeded shuffle returns a permutation of the non-admin roster, for
\* every seed: as long as the roster, every participant at exactly one position.
C22_ShufflePermutation ==
  fn.pc = "shuffled" =>
    /\ Len(fn.shuffled) = Len(NonAdminUsers)
    /\ \A i \in 1..Len(NonAdminUsers) :
         Cardinality({ k \in 1..Len(fn.shuffled) : fn.shuffled[k] = NonAdminUsers[i] }) = 1

\* C23: draw k of the stream (k = 0, 1, ..) is the value of the 8 hex digits of
\* the seed from offset 8k mod 256, over 0xffffffff; every window read has 8
\* digits; draw k + 32 equals draw k.
C23_StreamWindows ==
  fn.pc = "drawn" =>
    \A k \in 0..(StreamLen - 1) :
      LET o == (WindowLen * k) % SeedLength
      IN /\ fn.draws[k + 1] =
              [num |-> ParseInt(SubSeq(fn.hex, o + 1, o + WindowLen)),
               den |-> MaxUint32]
         /\ Len(Window(fn.hex, WindowLen * k)) = WindowLen
         /\ k + NumWindows < StreamLen =>
              fn.draws[k + NumWindows + 1] = fn.draws[k + 1]

\* the stream of a seed whose digits differ within a window and from window to
\* window has been drawn past the end of the seed
C23_Witness ==
  /\ fn.pc = "drawn"
  /\ Len(fn.draws) > NumWindows
  /\ fn.hex[1] # fn.hex[2]
  /\ fn.draws[1] # fn.draws[2]

\* the seedIndex at which the team loop reaches the team numbered n, after a
\* shuffle of a roster of N participants
TeamDrawIndex(N, n) ==
  WindowLen * ((IF N > 1 THEN N - 1 ELSE 0) + 2 * (n - 1))

\* C24: every team carries the title and the description of one entry of the
\* pool of three identification missions and the id of an active challenge of
\* difficulty team; after a completed call, the mission of team n is the one
\* drawn at the team's first draw and its challenge the one drawn at the next.
C24_TeamMissionAndChallenge ==
  /\ \A t \in teams :
       /\ \E m \in 0..(NumMissions - 1) :
            /\ t.identificationMissionTitle = <<"title", m>>
            /\ t.identificationMissionDescription = <<"description", m>>
       /\ \E i \in 1..Len(challenges) :
            /\ challenges[i].id = t.teamChallengeId
            /\ challenges[i].difficulty = "team"
            /\ challenges[i].isActive
  /\ \A p \in Procs :
       (gen[p].pc = "done" /\ Latest(p)) =>
          \A t \in teams :
            LET at == TeamDrawIndex(Len(gen[p].allUsers), t.name)
                m == FloorMul(StreamDigit(gen[p].seed, at), NumMissions)
                c == FloorMul(StreamDigit(gen[p].seed, at + WindowLen),
                              Len(gen[p].teamChallenges))
            IN /\ t.identificationMissionTitle = <<"title", m>>
               /\ t.teamChallengeId = gen[p].teamChallenges[c + 1].id

\* a completed call left two teams with the same mission and different team
\* challenges
C24_Witness ==
  \E p \in Procs :
    /\ gen[p].pc = "done"
    /\ Latest(p)
    /\ \E t, u \in teams :
         /\ t.identificationMissionTitle = u.identificationMissionTitle
         /\ t.teamChallengeId # u.teamChallengeId

\* C25: every team that exists right after a completed generateAssignments call
\* has identificationMissionValidated = false.
C25_ValidationsReset ==
  \A p \in Procs :
    gen[p].pc = "done" =>
      \A t \in post[p].teams : ~t.identificationMissionValidated

\* the ids of the users with isAdmin = true
AdminIds == { users[i].id : i \in { j \in 1..Len(users) : users[j].isAdmin } }

\* C26: in every state, no user with isAdmin = true is a team member, the
\* userId of an assignment or the targetUserId of an assignment, and the seed
\* record of every call has participantCount equal to the number of non-admin
\* users.
C26_AdminsExcluded ==
  /\ \A m \in teamMembers : m.userId \notin AdminIds
  /\ \A a \in assignments : a.userId \notin AdminIds /\ a.targetUserId \notin AdminIds
  /\ \A p \in Procs :
       gen[p].seedRecord # <<>> =>
         \E i \in 1..Len(assignmentSeeds) :
           /\ assignmentSeeds[i].id = gen[p].seedRecord
           /\ assignmentSeeds[i].participantCount =
                Cardinality({ j \in 1..Len(users) : ~users[j].isAdmin })

\* a call over a users table with an admin has completed, with members,
\* assignments and a target
C26_Witness ==
  \E p \in Procs :
    /\ gen[p].pc = "done"
    /\ AdminIds # {}
    /\ teamMembers # {}
    /\ \E a \in assignments : a.targetUserId \in UserIds
    /\ \E i \in 1..Len(assignmentSeeds) : assignmentSeeds[i].participantCount >= 2

\* C27: a mutating operation that names an entity that does not exist aborts:
\* a validate-mission request for an unknown team id, a status update for an
\* unknown assignment id and a proof validation for an unknown proof id report
\* failure, and no audit entry is written for the unknown team.
C27_UnknownAborts ==
  /\ (val.pc \in {"done", "failed"} /\ val.teamId = UnknownTeamId) =>
       val.pc = "failed"
  /\ \A i \in EntriesOf("validate_team_mission") :
       auditLog[i].details # UnknownTeamId
  /\ (upd.count > 0 /\ upd.assignmentId = UnknownAssignmentId) => upd.answer # 200
  /\ (pv.count > 0 /\ pv.proofId = UnknownProofId) => pv.answer # 200

\* C28: in every reachable state every assignment's status is one of
\* not_started, in_progress, completed, validated, and the step of a status
\* update with any other value leaves the assignments as they were.
C28_StatusDomain ==
  /\ [](\A a \in assignments : a.status \in ChallengeStatus)
  /\ [][(upd' # upd /\ upd'.status \notin ChallengeStatus) =>
          assignments' = assignments]_vars

\* an update has set a status, and a later one with a value outside the enum
\* named an existing assignment
C28_Witness ==
  /\ upd.count = 2
  /\ upd.status \notin ChallengeStatus
  /\ upd.assignmentId \in Ids(assignments)
  /\ \E a \in assignments : a.status # "not_started"

\* C29: in every reachable state, also after a regeneration that follows proof
\* submissions, every proof whose assignmentId is set names an existing
\* assignment and every proof whose teamId is set names an existing team.
C29_ProofReferences ==
  \A pr \in proofs :
    /\ pr.assignmentId # Unset => pr.assignmentId \in Ids(assignments)
    /\ pr.teamId # Unset => pr.teamId \in Ids(teams)

\* a generateAssignments call was made after a proof of an assignment and a
\* proof of a team were submitted
C29_Witness ==
  /\ \E pr \in proofs : pr.assignmentId # Unset
  /\ \E pr \in proofs : pr.teamId # Unset
  /\ \E p \in Procs : gen[p].pc \notin {"idle", "rejected"} /\ pre[p].assignments # {}

\* C30: the step of validateTeamMission(t) for an existing team t sets
\* identificationMissionValidated of t to true and leaves every other team, all
\* memberships, all assignments and all seed records as they were; and in no
\* step does a validated team that still exists become unvalidated.
C30_ValidateFrame ==
  [][/\ (val.pc = "idle" /\ val'.pc # "idle" /\ val'.teamId \in Ids(teams)) =>
          /\ Ids(teams') = Ids(teams)
          /\ \A t \in teams :
               IF t.id = val'.teamId
               THEN [t EXCEPT !.identificationMissionValidated = TRUE] \in teams'
               ELSE t \in teams'
          /\ UNCHANGED <<teamMembers, assignments, assignmentSeeds>>
     /\ \A t \in teams :
          t.identificationMissionValidated =>
            \A u \in teams' : u.id = t.id => u.identificationMissionValidated]_vars

\* the mission of one team has been validated while another team exists
\* unvalidated
C30_Witness ==
  /\ val.pc # "idle"
  /\ \E t \in teams : t.id = val.teamId /\ t.identificationMissionValidated
  /\ \E u \in teams : ~u.identificationMissionValidated

====
